---------------------------- MODULE Spec2Model ----------------------------
(***************************************************************************)
(* Model of the graph execution engine of graph-mode, src/library/core.ts: *)
(* retry, initializeDb, GraphNode, GraphRunner (constructor,               *)
(* initializeNodeMap, run, executeNode).                                   *)
(*                                                                         *)
(* The store is the SQLite database the runner is given.  Its two tables   *)
(* are modelled with the columns and the PRIMARY KEY constraints that      *)
(* initializeDb declares: Graphs(id PRIMARY KEY, graphName) and            *)
(* Runs(id PRIMARY KEY, graphId, nodeType, input, output, routed,          *)
(* datetime, success).  The datetime column is not modelled (no code reads *)
(* it).  An INSERT whose id is already in the table throws, as SQLite's    *)
(* UNIQUE constraint does.                                                 *)
(*                                                                         *)
(* run() is an async function.  Its await points are the points where      *)
(* other callbacks of the process can run, so one action of the model is   *)
(* the code between two such points:                                       *)
(*   RunStart     run() up to the first call of node.exec                  *)
(*   ExecReturn   node.exec resolves; routing, the INSERT, return out      *)
(*   ExecThrow    node.exec rejects; the catch block of executeNode        *)
(*   BackoffDone  retry's timer fires; retry(attempt + 1)                  *)
(*   Resume       run() continues after await executeNode: the loop test,  *)
(*                structuredClone and the next node.exec, or the exit      *)
(* Objects passed between nodes live in a heap of cells, so that sharing   *)
(* an object and copying it are different things.                          *)
(*                                                                         *)
(* Specifications: Spec (awaited runs), SpecShared (awaited runs, nodes    *)
(* that mutate objects), SpecOverlap (runs that overlap), SpecRetry (retry *)
(* alone) and SpecScript (the custom-newsletter script, part_002, which    *)
(* closes the database handle right after calling run()).                  *)
(***************************************************************************)
EXTENDS Integers, Sequences, FiniteSets, TLC

\* ------------------------------------------------------------------ bounds
MaxRunners == 2      \* GraphRunner objects constructed
MaxRuns == 2         \* run() calls
MaxFails == 4        \* retry harness: failures of the operation before it succeeds
MaxMaxAttempt == 4   \* retry harness: largest maxAttempt argument
MaxStartAttempt == 3 \* retry harness: largest starting attempt argument

\* ------------------------------------------------------- program constants
NoExecutionsAllowed == Cardinality({})   \* a cap that allows no Step at all
MAX_NODE_EXECUTIONS == 100
NODE_MAX_ATTEMPT == 3

GraphNames == {"custom-newsletter", "other-graph"}

\* ------------------------------------------------------------------- nodes
\* routing returns a NodeEnum or null; null is the termination sentinel.
NULL == "null"
\* A node identity that is falsy in JavaScript: the member of a numeric enum
\* whose value is 0.  String(0) is the nodeType it is registered under.
ZeroId == "0"
\* The result of a routing function that throws instead of returning.
Throws == "throws"

\* nodeMap[String(id)] of an identity that was never registered.
UndefinedNode == [nodeType |-> "undefined", routing |-> "undefined"]

GraphNode(nodeType, routing) == [nodeType |-> nodeType, routing |-> routing]

\* The graph definitions callers pass to the constructor: a node list and a
\* start identity.  Each node's routing function returns a fixed identity, as
\* the routing functions of the graph scripts do.
LinearScript ==
    [nodes |-> << GraphNode("Start", "Middle"), GraphNode("Middle", "End"),
                  GraphNode("End", NULL) >>,
     startNode |-> "Start"]
CycleScript ==
    [nodes |-> << GraphNode("A", "B"), GraphNode("B", "A") >>, startNode |-> "A"]
SingleScript ==
    [nodes |-> << GraphNode("End", NULL) >>, startNode |-> "End"]
DanglingScript ==
    [nodes |-> << GraphNode("A", "B") >>, startNode |-> "A"]
DuplicateScript ==
    [nodes |-> << GraphNode("A", "B"), GraphNode("A", NULL), GraphNode("B", NULL) >>,
     startNode |-> "A"]
BadStartScript ==
    [nodes |-> << GraphNode("A", NULL) >>, startNode |-> "B"]
ThrowingRouteScript ==
    [nodes |-> << GraphNode("A", Throws) >>, startNode |-> "A"]
\* The graph of the custom-newsletter script (part_002, lines 29-34, 46-211).
NewsletterScript ==
    [nodes |-> << GraphNode("INPUT_NODE", "SELECTOR_NODE"),
                  GraphNode("SELECTOR_NODE", "SUMMARIZER_NODE"),
                  GraphNode("SUMMARIZER_NODE", "AGGREGATOR_NODE"),
                  GraphNode("AGGREGATOR_NODE", NULL) >>,
     startNode |-> "INPUT_NODE"]
ZeroScript ==
    [nodes |-> << GraphNode("A", ZeroId), GraphNode(ZeroId, NULL) >>,
     startNode |-> "A"]

Scripts ==
    {LinearScript, CycleScript, SingleScript, DanglingScript, DuplicateScript,
     BadStartScript, ZeroScript, ThrowingRouteScript}

VARIABLES
    script,    \* the graph definition of the calling script: [nodes, startNode]
    Graphs,    \* table Graphs: sequence of rows [id, graphName]
    Runs,      \* table Runs (the Steps): sequence of rows
    runners,   \* the GraphRunner objects constructed so far
    calls,     \* the run() activations: locals of run, executeNode and retry
    heap,      \* the objects passed to and returned by exec: ref -> value
    rt,        \* a stand-alone call of retry(operation, maxAttempt, attempt)
    main       \* the calling program: its database handle and its catch block

vars == << script, Graphs, Runs, runners, calls, heap, rt, main >>

\* ------------------------------------------------------------------- retry
\* retry, line 6: the guard that ends the recursion.
RetryExhaustedOffByOne(attempt, maxAttempt) == attempt >= maxAttempt
RetryExhausted(attempt, maxAttempt) == attempt > maxAttempt

\* retry, line 11: the delay of setTimeout after failed attempt number `attempt`.
Backoff(attempt) == 1000 * (attempt + 1) * (attempt + 1)

\* ------------------------------------------------------------------- store
\* INSERT INTO table: the new row comes after the rows already there (rowid
\* order, the order a SELECT without ORDER BY returns).
InsertFirst(table, row) == << row >> \o table
Insert(table, row) == Append(table, row)

\* SELECT id FROM Graphs WHERE graphName = ? LIMIT 1
SelectGraphId(table, graphName) ==
    LET hits == SelectSeq(table, LAMBDA row : row.graphName = graphName)
    IN  IF Len(hits) = 0 THEN << >> ELSE << hits[1] >>

\* GraphRunner.constructor, line 78: insert the graph only when the lookup is empty.
NeedsGraphInsertAlways(graphIdResult) == TRUE
NeedsGraphInsert(graphIdResult) == Len(graphIdResult) = 0

\* id TEXT PRIMARY KEY: an INSERT is accepted only if no row holds that id.
\* A statement on a closed database handle throws.
DbOpen == main.db = "open"
\* A caller that keeps its handle open and awaits run().
LibraryCaller == [db |-> "open", caught |-> FALSE]

InsertAccepted(table, id) == \A i \in 1..Len(table) : table[i].id # id

\* The values of the INSERT INTO Runs statements.  The first value, bound to the
\* id column, is the runId in all three statements.
StepRow(runId, graphId, nodeType, input, output, routed, success) ==
    [id |-> runId, graphId |-> graphId, nodeType |-> nodeType, input |-> input,
     output |-> output, routed |-> routed, success |-> success]

\* ------------------------------------------------------------------ values
\* An object is a heap cell; its value is the payload n and whether someone
\* mutated the object after it was created.
NoRef == << 0, 0 >>
ScriptInputRef == << 0, 1 >>
InitialValue == [n |-> 0, dirty |-> FALSE]
NoValue == [n |-> 0 - 1, dirty |-> FALSE]

\* JSON.stringify(value): the text of the value at the time of the call.
JSONstringify(v) == [text |-> "json", n |-> v.n, dirty |-> v.dirty]
\* Error messages: of the Error a node's exec throws, of the Error the catch
\* block of executeNode throws (line 135), of SQLite's constraint error, of the
\* TypeError of reading a property of undefined, of run()'s own Error (line 94).
NoError == "undefined"
ExecMessage == "exec error"
NodeFailedMessage == "Node failed to execute"
UniqueMessage == "UNIQUE constraint failed: Runs.id"
TypeErrorMessage == "undefined is not an object"
NoGraphMessage == "Could not find graphId"
DbClosedMessage == "Cannot use a closed database"

NoResult == [text |-> "undefined", n |-> 0, dirty |-> FALSE]
\* JSON.stringify(err) of an Error object
ErrorText == [text |-> "{}", n |-> 0, dirty |-> FALSE]
MaxIterText == [text |-> "MAX ITERATIONS reached", n |-> 0, dirty |-> FALSE]

\* structuredClone(value): the value of the new object
structuredClone(v) == [n |-> v.n, dirty |-> v.dirty]

\* run, line 107: the object the next node receives, given the previous
\* output object `out` and a newly allocated object `fresh`.
NextInputRefAlias(out, fresh) == out
NextInputRef(out, fresh) == fresh

\* What a node's exec computes from its input value.
ExecValue(v) == [n |-> v.n + 1, dirty |-> FALSE]

\* ---------------------------------------------------------------- nodeMap
\* initializeNodeMap: nodeMap[node.nodeType] = node for each node in order, so
\* the last node of a type wins.  Lookup gives undefined for a missing key.
RECURSIVE NodeMapLookup(_, _)
NodeMapLookup(nodes, id) ==
    IF Len(nodes) = 0 THEN UndefinedNode
    ELSE IF nodes[Len(nodes)].nodeType = id THEN nodes[Len(nodes)]
         ELSE NodeMapLookup(SubSeq(nodes, 1, Len(nodes) - 1), id)

\* Truthiness of a NodeEnum | null and of a GraphNode | undefined.
TruthyId(id) == id \notin {NULL, ZeroId}
TruthyNode(node) == node # UndefinedNode

\* node.routing(out)
Routing(node, out) == node.routing

\* nextNodeId ? nextNode = this.nodeMap[String(nextNodeId)] : null  (lines 103, 111)
AdvanceNode(nodes, nextNode, nextNodeId) ==
    IF TruthyId(nextNodeId) THEN NodeMapLookup(nodes, nextNodeId) ELSE nextNode

\* while (nextNode && numExecutions < MAX_NODE_EXECUTIONS)  (line 106)
LoopContinues(nextNode, numExecutions) ==
    TruthyNode(nextNode) /\ numExecutions < MAX_NODE_EXECUTIONS

\* if (numExecutions === MAX_NODE_EXECUTIONS)  (line 114)
CapReached(numExecutions) == numExecutions = MAX_NODE_EXECUTIONS

\* crypto.randomUUID() gives a value no earlier call gave.  Rows and calls are
\* never removed, so their counts name fresh values.
RandomGraphId == Len(Graphs) + 1
RunIdOfRunner == Len(runners)
RandomRunId == Len(calls) + 1

\* ------------------------------------------------------------- constructor
\* GraphRunner.constructor (lines 63-83): find-or-create the Graphs row, keep
\* the parameters.  Nothing in it inspects the node list or the start identity.
Construct(graphName) ==
    /\ Len(runners) < MaxRunners
    /\ LET graphIdResult == SelectGraphId(Graphs, graphName)
       IN  IF NeedsGraphInsert(graphIdResult)
           THEN Graphs' = Insert(Graphs, [id |-> RandomGraphId, graphName |-> graphName])
           ELSE UNCHANGED Graphs
    /\ runners' = Append(runners,
                         [graphName |-> graphName, nodes |-> script.nodes,
                          startNode |-> script.startNode, input |-> ScriptInputRef])
    /\ UNCHANGED << script, Runs, calls, heap, rt, main >>

\* ------------------------------------------------------------- executeNode
\* The function given to retry (lines 124-137), up to its first await: the call
\* of node.exec.  With an undefined node, node.exec throws a TypeError inside
\* the try, and so does String(node.nodeType) in the catch, before any INSERT.
\* The field execs counts the calls of exec so far (history); error is the
\* message of the error the function last rejected with, which retry's catch
\* hands to the next retry call.
\* given is the value of the argument at this call of exec, firstGiven at the
\* first call of exec within this executeNode (history, kept while the
\* executeNode lasts).
InvokeFunc(c, h) ==
    IF TruthyNode(c.nextNode)
    THEN [c EXCEPT !.pc = "exec", !.execs = @ + 1,
                   !.given = structuredClone(h[c.input]),
                   !.firstGiven = IF c.attempt = 1
                                  THEN structuredClone(h[c.input]) ELSE @]
    ELSE [c EXCEPT !.pc = "backoff", !.nextNodeId = NULL,
                   !.error = TypeErrorMessage]

\* run() settles: it resolves with `output` or rejects.  Its locals are gone;
\* result keeps the value it resolved with.
Settle(c, pc, h) ==
    [c EXCEPT !.pc = pc, !.input = NoRef, !.output = NoRef, !.execOut = NoRef,
              !.given = NoValue, !.firstGiven = NoValue,
              !.result = IF pc = "done" THEN JSONstringify(h[c.output]) ELSE @]

\* The heap once the objects that only call k held are collected.
Release(h, k) == [ref \in {x \in DOMAIN h : x[1] # k} |-> h[ref]]

\* The heap after a step that leaves call k as c.
Collect(h, k, c) == IF c.pc \in {"done", "failed"} THEN Release(h, k) ELSE h

\* retry(func, maxAttempt, attempt) up to its first await.  When the attempts
\* are exhausted retry throws new Error(error?.message): executeNode rejects
\* with it and so does run(), so error is then the message run() fails with.
RetryEnter(c, attempt, h) ==
    IF RetryExhausted(attempt, NODE_MAX_ATTEMPT)
    THEN Settle([c EXCEPT !.attempt = attempt], "failed", h)
    ELSE InvokeFunc([c EXCEPT !.attempt = attempt], h)

\* executeNode(node, input, runId, graphId): retry(..., 3, 1)
\* resolved: whether exec has resolved within this executeNode (history, like
\* anyThrow: whether exec has rejected within this run).
ExecuteNode(c, h) == RetryEnter([c EXCEPT !.resolved = FALSE], 1, h)

\* --------------------------------------------------------------------- run
\* run(), lines 92-100.
RunCall(i) ==
    /\ i \in 1..Len(runners)
    /\ Len(calls) < MaxRuns
    /\ LET r == runners[i]
           runId == RandomRunId
           graphIdResult == SelectGraphId(Graphs, r.graphName)
           c0 == [runner |-> i, runId |-> runId, graphId |-> 0,
                  nextNode |-> UndefinedNode, input |-> NoRef, output |-> NoRef,
                  execOut |-> NoRef, nextNodeId |-> NULL, numExecutions |-> 0,
                  attempt |-> 0, pc |-> "failed", allocs |-> 0,
                  execs |-> 0, lostInsert |-> 0, endAt |-> 0,
                  resolved |-> FALSE, anyThrow |-> FALSE, result |-> NoResult,
                  error |-> NoGraphMessage,
                  given |-> NoValue, firstGiven |-> NoValue]
       IN  calls' = Append(calls,
               IF ~DbOpen THEN [c0 EXCEPT !.error = DbClosedMessage]
               ELSE IF Len(graphIdResult) = 0 THEN c0
               ELSE ExecuteNode([c0 EXCEPT
                        !.error = NoError,
                        !.graphId = graphIdResult[1].id,
                        !.nextNode = NodeMapLookup(r.nodes, r.startNode),
                        !.input = r.input], heap))
    /\ UNCHANGED << script, Graphs, Runs, runners, heap, rt >>

\* run() called by a caller that goes on only when it has settled.
RunStart(i) == RunCall(i) /\ UNCHANGED main

\* The end of the custom-newsletter script (part_002, lines 215-221):
\*   try { graphRunner.run(); } catch (err) { ... } finally { db.close(); }
\* run() is not awaited: it runs up to its first await and returns a promise,
\* which the script drops; an async function never throws into the try, so
\* the catch block is not entered, and finally closes the handle.
MainRunAndClose ==
    /\ Len(runners) = 1 /\ Len(calls) = 0
    /\ DbOpen
    /\ RunCall(1)
    /\ main' = [main EXCEPT !.db = "closed"]

\* The catch block of executeNode's function (lines 131-136): the failure row,
\* then throw.  The function rejects whether or not the INSERT is accepted.
\* lostInsert records the number of exec calls made when an INSERT first threw,
\* endAt the number made when a success row with routed = "END" was first
\* written (history fields; 0 for never).
CatchBlock(k, c) ==
    LET row == StepRow(c.runId, c.graphId, c.nextNode.nodeType,
                       JSONstringify(heap[c.input]), ErrorText,
                       c.nextNode.nodeType, 0)
        ok == DbOpen /\ InsertAccepted(Runs, row.id)
    IN  /\ Runs' = IF ok THEN Insert(Runs, row) ELSE Runs
        /\ calls' = [calls EXCEPT ![k] =
                        [c EXCEPT !.pc = "backoff", !.nextNodeId = NULL,
                                  !.given = NoValue,
                                  !.error = IF ok THEN NodeFailedMessage
                                            ELSE IF DbOpen THEN UniqueMessage
                                            ELSE DbClosedMessage,
                                  !.lostInsert = IF ok \/ @ > 0 THEN @ ELSE c.execs]]

\* node.exec resolves (lines 126-130).  same: exec returns its input object
\* itself; otherwise it returns a new object.  An exception of node.routing
\* (line 127) is thrown inside the try and lands in the catch block.
ExecReturn(k, same) ==
    /\ k \in 1..Len(calls)
    /\ calls[k].pc = "exec"
    /\ LET c == calls[k]
           out == IF same THEN c.input ELSE << k, c.allocs + 1 >>
           outValue == IF same THEN heap[c.input] ELSE ExecValue(heap[c.input])
           nextNodeId == Routing(c.nextNode, outValue)
           row == StepRow(c.runId, c.graphId, c.nextNode.nodeType,
                          JSONstringify(heap[c.input]), JSONstringify(outValue),
                          IF TruthyId(nextNodeId) THEN nextNodeId ELSE "END", 1)
       IN  IF nextNodeId = Throws
           THEN /\ CatchBlock(k, [c EXCEPT !.resolved = TRUE])
                /\ heap' = heap
           ELSE IF DbOpen /\ InsertAccepted(Runs, row.id)
           THEN /\ Runs' = Insert(Runs, row)
                /\ heap' = IF same THEN heap ELSE heap @@ (out :> outValue)
                /\ calls' = [calls EXCEPT ![k] =
                       [c EXCEPT !.pc = "resume", !.execOut = out,
                                 !.given = NoValue, !.firstGiven = NoValue,
                                 !.resolved = TRUE,
                                 !.nextNodeId = nextNodeId,
                                 !.allocs = IF same THEN @ ELSE @ + 1,
                                 !.endAt = IF TruthyId(nextNodeId) \/ @ > 0
                                           THEN @ ELSE c.execs]]
           ELSE /\ CatchBlock(k, [c EXCEPT !.resolved = TRUE,
                                           !.lostInsert = IF @ > 0 THEN @ ELSE c.execs])
                /\ heap' = heap
    /\ UNCHANGED << script, Graphs, runners, rt, main >>

\* node.exec rejects (lines 131-136).
ExecThrow(k) ==
    /\ k \in 1..Len(calls)
    /\ calls[k].pc = "exec"
    /\ CatchBlock(k, [calls[k] EXCEPT !.anyThrow = TRUE])
    /\ UNCHANGED << script, Graphs, runners, heap, rt, main >>

\* retry's timer fires (lines 11-13): retry(func, maxAttempt, attempt + 1, error).
BackoffDone(k) ==
    /\ k \in 1..Len(calls)
    /\ calls[k].pc = "backoff"
    /\ LET c == RetryEnter(calls[k], calls[k].attempt + 1, heap)
       IN  /\ calls' = [calls EXCEPT ![k] = c]
           /\ heap' = Collect(heap, k, c)
    /\ UNCHANGED << script, Graphs, Runs, runners, rt, main >>

\* run() after await this.executeNode(...) (lines 101-119): take the result,
\* advance nextNode, count the execution, then either clone the output and
\* execute the next node or leave the loop, write the cap row and return.
Resume(k) ==
    /\ k \in 1..Len(calls)
    /\ calls[k].pc = "resume"
    /\ LET c == calls[k]
           output == c.execOut
           nextNode == AdvanceNode(runners[c.runner].nodes, c.nextNode, c.nextNodeId)
           numExecutions == IF c.numExecutions = 0 THEN 1 ELSE c.numExecutions + 1
           c1 == [c EXCEPT !.output = output, !.execOut = NoRef,
                           !.nextNode = nextNode, !.numExecutions = numExecutions]
           fresh == << k, c.allocs + 1 >>
           capRow == StepRow(c.runId, c.graphId, nextNode.nodeType,
                             JSONstringify(heap[c.input]), MaxIterText,
                             nextNode.nodeType, 0)
           cloned == heap @@ (fresh :> structuredClone(heap[output]))
       IN  IF LoopContinues(nextNode, numExecutions)
           THEN /\ heap' = cloned
                /\ calls' = [calls EXCEPT ![k] =
                       ExecuteNode([c1 EXCEPT !.input = NextInputRef(output, fresh),
                                              !.allocs = @ + 1], cloned)]
                /\ Runs' = Runs
           ELSE IF CapReached(numExecutions)
           THEN IF TruthyNode(nextNode) /\ DbOpen /\ InsertAccepted(Runs, capRow.id)
                THEN /\ Runs' = Insert(Runs, capRow)
                     /\ calls' = [calls EXCEPT ![k] = Settle(c1, "done", heap)]
                     /\ heap' = Release(heap, k)
                ELSE /\ calls' = [calls EXCEPT ![k] = Settle(
                            [c1 EXCEPT !.error = IF ~TruthyNode(nextNode)
                                                 THEN TypeErrorMessage
                                                 ELSE IF DbOpen THEN UniqueMessage
                                                 ELSE DbClosedMessage],
                            "failed", heap)]
                     /\ heap' = Release(heap, k)
                     /\ Runs' = Runs
           ELSE /\ calls' = [calls EXCEPT ![k] = Settle(c1, "done", heap)]
                /\ heap' = Release(heap, k)
                /\ Runs' = Runs
    /\ UNCHANGED << script, Graphs, runners, rt, main >>

\* ------------------------------------------------------------ environment
\* The object most recently returned by a node of call c.
LastOutput(c) == IF c.pc = "resume" THEN c.execOut ELSE c.output

\* A node mutates the object it returned, after returning it.
LateMutate(k) ==
    /\ k \in 1..Len(calls)
    /\ calls[k].pc \in {"resume", "exec", "backoff"}
    /\ LastOutput(calls[k]) # NoRef
    /\ ~heap[LastOutput(calls[k])].dirty
    /\ heap' = [heap EXCEPT ![LastOutput(calls[k])].dirty = TRUE]
    /\ UNCHANGED << script, Graphs, Runs, runners, calls, rt, main >>

\* The exec in flight mutates the object it was given.
ExecMutate(k) ==
    /\ k \in 1..Len(calls)
    /\ calls[k].pc = "exec"
    /\ ~heap[calls[k].input].dirty
    /\ heap' = [heap EXCEPT ![calls[k].input].dirty = TRUE]
    /\ UNCHANGED << script, Graphs, Runs, runners, calls, rt, main >>

\* ------------------------------------------------------------ retry alone
\* retry(operation, maxAttempt, attempt) for an operation that fails `fails`
\* times and then succeeds.  invoked counts the calls of the operation, waits
\* lists the delays of the timers set.
RtIdle ==
    [pc |-> "idle", maxAttempt |-> 0, start |-> 0, attempt |-> 0, fails |-> 0,
     failed |-> 0, invoked |-> 0, waits |-> << >>]

\* retry, lines 6-10: the guard, then the call of func.
RetryCall ==
    /\ rt.pc = "enter"
    /\ rt' = IF RetryExhausted(rt.attempt, rt.maxAttempt)
             THEN [rt EXCEPT !.pc = "thrown"]
             ELSE IF rt.failed < rt.fails
             THEN [rt EXCEPT !.pc = "wait", !.invoked = @ + 1, !.failed = @ + 1]
             ELSE [rt EXCEPT !.pc = "returned", !.invoked = @ + 1]
    /\ UNCHANGED << script, Graphs, Runs, runners, calls, heap, main >>

\* retry, lines 11-13: the timer, then the recursive call.
RetryTimer ==
    /\ rt.pc = "wait"
    /\ rt' = [rt EXCEPT !.pc = "enter", !.attempt = @ + 1,
                        !.waits = Append(@, Backoff(rt.attempt))]
    /\ UNCHANGED << script, Graphs, Runs, runners, calls, heap, main >>

\* ----------------------------------------------------------- specifications
Init ==
    /\ script \in Scripts
    /\ Graphs = << >>
    /\ Runs = << >>
    /\ runners = << >>
    /\ calls = << >>
    /\ heap = (ScriptInputRef :> InitialValue)
    /\ rt = RtIdle
    /\ main = LibraryCaller

\* The caller awaits each run() before it calls run() again.
NoCallInFlight == \A k \in 1..Len(calls) : calls[k].pc \in {"done", "failed"}

\* The engine with awaited run() calls; nodes leave the objects they receive
\* and return alone.
Next ==
    \/ \E graphName \in GraphNames : Construct(graphName)
    \/ \E i \in 1..MaxRunners : NoCallInFlight /\ RunStart(i)
    \/ \E k \in 1..MaxRuns : ExecReturn(k, FALSE)
    \/ \E k \in 1..MaxRuns : ExecThrow(k)
    \/ \E k \in 1..MaxRuns : BackoffDone(k)
    \/ \E k \in 1..MaxRuns : Resume(k)

Spec == Init /\ [][Next]_vars

\* The engine with run() calls that are not awaited and may overlap, and
\* nodes that may mutate the object they are given.
NextOverlap ==
    \/ \E graphName \in GraphNames : Construct(graphName)
    \/ \E i \in 1..MaxRunners : RunStart(i)
    \/ \E k \in 1..MaxRuns : ExecReturn(k, FALSE)
    \/ \E k \in 1..MaxRuns : ExecThrow(k)
    \/ \E k \in 1..MaxRuns : BackoffDone(k)
    \/ \E k \in 1..MaxRuns : Resume(k)
    \/ \E k \in 1..MaxRuns : ExecMutate(k)

\* Overlap is a matter of callers and of the store, not of the graph's shape:
\* the graphs here are a well-formed one, one that never ends and one whose
\* run never calls exec.
OverlapScripts == {LinearScript, CycleScript, BadStartScript}

InitOverlap ==
    /\ script \in OverlapScripts
    /\ Graphs = << >>
    /\ Runs = << >>
    /\ runners = << >>
    /\ calls = << >>
    /\ heap = (ScriptInputRef :> InitialValue)
    /\ rt = RtIdle
    /\ main = LibraryCaller

SpecOverlap == InitOverlap /\ [][NextOverlap]_vars

\* The engine with awaited run() calls and nodes that mutate the objects they
\* are given and the objects they returned.
NextShared ==
    \/ \E graphName \in GraphNames : Construct(graphName)
    \/ \E i \in 1..MaxRunners : NoCallInFlight /\ RunStart(i)
    \/ \E k \in 1..MaxRuns, same \in BOOLEAN : ExecReturn(k, same)
    \/ \E k \in 1..MaxRuns : ExecThrow(k)
    \/ \E k \in 1..MaxRuns : BackoffDone(k)
    \/ \E k \in 1..MaxRuns : Resume(k)
    \/ \E k \in 1..MaxRuns : LateMutate(k)
    \/ \E k \in 1..MaxRuns : ExecMutate(k)

SpecShared == Init /\ [][NextShared]_vars

InitRetry ==
    /\ script = LinearScript
    /\ Graphs = << >>
    /\ Runs = << >>
    /\ runners = << >>
    /\ calls = << >>
    /\ heap = (ScriptInputRef :> InitialValue)
    /\ \E m \in 0..MaxMaxAttempt, a \in 1..MaxStartAttempt, f \in 0..MaxFails :
          rt = [RtIdle EXCEPT !.pc = "enter", !.maxAttempt = m, !.start = a,
                              !.attempt = a, !.fails = f]
    /\ main = LibraryCaller

NextRetry == RetryCall \/ RetryTimer

SpecRetry == InitRetry /\ [][NextRetry]_vars

\* The custom-newsletter script (part_002) run as a program.  The database is
\* a file that outlives the process, so the script may find it new, holding
\* another graph, or holding this graph and a Step of an earlier process.
EarlierStep ==
    StepRow(0, 1, "INPUT_NODE", JSONstringify(InitialValue), ErrorText, "INPUT_NODE", 0)
StoresFound ==
    { [Graphs |-> << >>, Runs |-> << >>],
      [Graphs |-> << [id |-> 1, graphName |-> "other-graph"] >>, Runs |-> << >>],
      [Graphs |-> << [id |-> 1, graphName |-> "custom-newsletter"] >>, Runs |-> << >>],
      [Graphs |-> << [id |-> 1, graphName |-> "custom-newsletter"] >>,
       Runs |-> << EarlierStep >>] }

InitScript ==
    /\ script = NewsletterScript
    /\ \E store \in StoresFound : Graphs = store.Graphs /\ Runs = store.Runs
    /\ runners = << >>
    /\ calls = << >>
    /\ heap = (ScriptInputRef :> InitialValue)
    /\ rt = RtIdle
    /\ main = [db |-> "open", caught |-> FALSE]

\* The script constructs one runner, calls run() and closes the handle; the
\* rest is what the event loop does with the run it left behind.  (Resume is
\* never enabled here: no INSERT is accepted once the handle is closed.)
NextScript ==
    \/ Len(runners) = 0 /\ Construct("custom-newsletter")
    \/ MainRunAndClose
    \/ \E k \in 1..MaxRuns, same \in BOOLEAN : ExecReturn(k, same)
    \/ \E k \in 1..MaxRuns : ExecThrow(k)
    \/ \E k \in 1..MaxRuns : BackoffDone(k)
    \/ \E k \in 1..MaxRuns : ExecMutate(k)

SpecScript == InitScript /\ [][NextScript]_vars

\* ------------------------------------------------------------------ claims

\* The Steps of a run: the rows of Runs written with that run's id.
StepsOf(runId) == SelectSeq(Runs, LAMBDA row : row.id = runId)
CapSteps(runId) == SelectSeq(StepsOf(runId), LAMBDA row : row.output = MaxIterText)
SuccessSteps(runId) == SelectSeq(StepsOf(runId), LAMBDA row : row.success = 1)
Finished(c) == c.pc \in {"done", "failed"}

\* C1: once a success Step with a routing result of null is recorded, no exec
\* is called again in that run: the number of exec calls stays what it was.
C1_StopsAtTermination ==
    \A k \in 1..Len(calls) : calls[k].endAt > 0 => calls[k].execs = calls[k].endAt

\* C2: a finished run in which no exec threw and some node routed to null has
\* as many Steps as exec calls, and its last Step has routed = "END".
C2_StepsEqualExecutions ==
    \A k \in 1..Len(calls) :
        LET c == calls[k]
            steps == StepsOf(c.runId)
        IN  (Finished(c) /\ ~c.anyThrow /\ c.endAt > 0) =>
                /\ Len(steps) = c.execs
                /\ steps[Len(steps)].routed = "END"

\* C3: a run of the two-node cycle A -> B -> A in which no exec throws returns
\* normally with MAX_NODE_EXECUTIONS success Steps and one cap-reached Step.
C3_CycleReachesCap ==
    \A k \in 1..Len(calls) :
        LET c == calls[k]
        IN  (script = CycleScript /\ Finished(c) /\ ~c.anyThrow) =>
                /\ c.pc = "done"
                /\ Len(SuccessSteps(c.runId)) = MAX_NODE_EXECUTIONS
                /\ Len(CapSteps(c.runId)) = 1

\* C4: retry started at attempt 1 on an operation that fails `fails` times:
\* if fails < maxAttempt it returns after fails + 1 calls of the operation,
\* otherwise it throws after exactly maxAttempt calls.
C4_RetryAttempts ==
    (rt.start = 1 /\ rt.pc \in {"returned", "thrown"}) =>
        IF rt.fails < rt.maxAttempt
        THEN rt.pc = "returned" /\ rt.invoked = rt.fails + 1
        ELSE rt.pc = "thrown" /\ rt.invoked = rt.maxAttempt

C4_RetryExhaustedWitness ==
    /\ rt.start = 1 /\ rt.pc = "thrown"
    /\ rt.maxAttempt = NODE_MAX_ATTEMPT /\ rt.fails > rt.maxAttempt
    /\ rt.invoked = NODE_MAX_ATTEMPT

\* C5: when a run fails because a node's exec threw on every attempt, exactly
\* one failure Step (success = 0, routed = the node's own identity) of that
\* node is in the run's Steps.
C5_OneFailureStep ==
    \A k \in 1..Len(calls) :
        LET c == calls[k]
            failures == SelectSeq(StepsOf(c.runId),
                            LAMBDA row : /\ row.success = 0
                                         /\ row.nodeType = c.nextNode.nodeType
                                         /\ row.routed = c.nextNode.nodeType)
        IN  (c.pc = "failed" /\ TruthyNode(c.nextNode) /\ ~c.resolved
               /\ RetryExhausted(c.attempt, NODE_MAX_ATTEMPT)) =>
                Len(failures) = 1

\* C6: the Steps of a run other than the cap-reached Step are exactly one per
\* completed call of exec.
C6_OneStepPerAttempt ==
    \A k \in 1..Len(calls) :
        LET c == calls[k]
            completed == IF c.pc = "exec" THEN c.execs - 1 ELSE c.execs
        IN  /\ Len(StepsOf(c.runId)) - Len(CapSteps(c.runId)) = completed
            /\ Len(CapSteps(c.runId)) <= 1

C9_ConstructorValidates ==
    \A i \in 1..Len(runners) :
        LET nodes == runners[i].nodes
        IN  /\ \A a, b \in 1..Len(nodes) :
                  nodes[a].nodeType = nodes[b].nodeType => a = b
            /\ \E a \in 1..Len(nodes) : nodes[a].nodeType = runners[i].startNode

\* C10: once an INSERT of a Step has thrown in a run, no exec is called again
\* in that run.
C10_InsertFailureIsFatal ==
    \A k \in 1..Len(calls) :
        calls[k].lostInsert > 0 => calls[k].execs = calls[k].lostInsert

C12_FailureCarriesExecMessage ==
    \A k \in 1..Len(calls) :
        LET c == calls[k]
        IN  (c.pc = "failed" /\ TruthyNode(c.nextNode) /\ ~c.resolved
               /\ RetryExhausted(c.attempt, NODE_MAX_ATTEMPT)) =>
                c.error = ExecMessage

\* C13: every Step write uses an id no earlier Step write used, so no INSERT
\* of a Step is ever rejected: no run has seen an INSERT throw.
C13_StepIdsFresh ==
    \A k \in 1..Len(calls) : calls[k].lostInsert = 0

\* The terminal states of a run as the state machine names them.
CompletedRun(c) ==
    /\ c.pc = "done" /\ c.endAt > 0 /\ c.execs = c.endAt
    /\ Len(CapSteps(c.runId)) = 0
FailedRun(c) == c.pc = "failed" /\ RetryExhausted(c.attempt, NODE_MAX_ATTEMPT)
CapReachedRun(c) ==
    /\ c.pc = "done" /\ CapReached(c.numExecutions)
    /\ Len(CapSteps(c.runId)) = 1

\* C14: a run that has settled is in exactly one of Completed, Failed and
\* CapReached, and a run that made a successful step with a terminal route
\* makes no further step: it is about to return or has returned, Completed.
C14_RunStateMachine ==
    \A k \in 1..Len(calls) :
        LET c == calls[k]
        IN  /\ Finished(c) =>
                \/ CompletedRun(c) /\ ~FailedRun(c) /\ ~CapReachedRun(c)
                \/ ~CompletedRun(c) /\ FailedRun(c) /\ ~CapReachedRun(c)
                \/ ~CompletedRun(c) /\ ~FailedRun(c) /\ CapReachedRun(c)
            /\ c.endAt > 0 => c.pc \in {"resume", "done"}

\* C15: a run whose start identity is not the nodeType of a registered node
\* fails at once: it never waits for a retry, makes no attempt after the
\* first, and writes no Step.
C15_BadStartFailsAtOnce ==
    \A k \in 1..Len(calls) :
        LET c == calls[k]
            r == runners[c.runner]
        IN  ~TruthyNode(NodeMapLookup(r.nodes, r.startNode)) =>
                /\ c.pc = "failed"
                /\ c.attempt <= 1
                /\ Len(StepsOf(c.runId)) = 0

\* C16: a run whose last node routed to an identity that is neither falsy nor
\* the nodeType of a registered node does not return normally.
C16_DanglingRouteFails ==
    \A k \in 1..Len(calls) :
        LET c == calls[k]
        IN  (/\ c.resolved /\ TruthyId(c.nextNodeId)
             /\ ~TruthyNode(NodeMapLookup(runners[c.runner].nodes, c.nextNodeId)))
                => c.pc # "done"

\* C18: the success Steps of a run form a chain from the start node and the
\* run's input; routed is "END" exactly when the node's routing returned null;
\* no success Step follows one with routed = "END".
C18_SuccessStepsChain ==
    \A k \in 1..Len(calls) :
        LET c == calls[k]
            r == runners[c.runner]
            S == SuccessSteps(c.runId)
        IN  /\ Len(S) >= 1 =>
                /\ S[1].nodeType = r.startNode
                /\ S[1].input = JSONstringify(InitialValue)
            /\ \A i \in 1..Len(S) :
                  /\ (S[i].routed = "END") <=>
                         (Routing(NodeMapLookup(r.nodes, S[i].nodeType), S[i].output) = NULL)
                  /\ i < Len(S) =>
                         /\ S[i].routed # "END"
                         /\ S[i + 1].nodeType = S[i].routed
                         /\ S[i + 1].input = S[i].output

\* C19: every wait of retry started at attempt 1 lasts 1000 * (a + 1)^2 ms,
\* a the number of the attempt that failed before it, and a retry that throws
\* with maxAttempt = m >= 1 has waited exactly m - 1 times.
C19_WaitsBetweenAttempts ==
    rt.start = 1 =>
        /\ \A a \in 1..Len(rt.waits) : rt.waits[a] = 1000 * (a + 1) * (a + 1)
        /\ (rt.pc = "thrown" /\ rt.maxAttempt >= 1) =>
               Len(rt.waits) = rt.maxAttempt - 1

\* C20: every step of the engine leaves the Steps already written as they
\* are and in place: table Runs after the step is table Runs before it with
\* zero or more rows added at the end.
C20_StepsAppendOnly ==
    [][/\ Len(Runs') >= Len(Runs)
       /\ SubSeq(Runs', 1, Len(Runs)) = Runs]_vars

\* Two runs have written Steps, and an INSERT of the later one was rejected.
C20_TwoRunsLogged ==
    /\ Len(Runs) >= 2
    /\ Runs[1].id # Runs[2].id
    /\ \E k \in 1..Len(calls) : calls[k].runId = Runs[2].id /\ calls[k].lostInsert > 0

\* C22: within one executeNode, once exec has resolved it is not called
\* again, whatever routing or the INSERT did afterwards.
C22_NoExecAfterSuccess ==
    \A k \in 1..Len(calls) : calls[k].pc = "exec" => ~calls[k].resolved

\* C23: the input a Step records is the value exec was called with in the
\* attempt that wrote it, and every attempt of an executeNode calls exec with
\* the value the first attempt called it with.
C23_InputAsGiven ==
    /\ [](\A k \in 1..Len(calls) :
             calls[k].pc = "exec" => calls[k].given = calls[k].firstGiven)
    /\ [][\A k \in 1..Len(calls) :
             (calls[k].pc = "exec" /\ calls'[k].pc # "exec"
                /\ Len(Runs') = Len(Runs) + 1) =>
                 Runs'[Len(Runs')].input = JSONstringify(calls[k].given)]_vars

\* C24: in the custom-newsletter script the database handle is closed only
\* when run() has settled, and a run() that failed was caught by the script's
\* catch block.
C24_CloseAfterRun ==
    /\ main.db = "closed" => \A k \in 1..Len(calls) : Finished(calls[k])
    /\ \A k \in 1..Len(calls) : calls[k].pc = "failed" => main.caught

\* What the store and the engine guarantee to overlapping runs: the exec of
\* a node after the first starts only when a success Step of the run is
\* written; whether an INSERT of a run is accepted depends on that run's rows
\* only; a step changes the locals of at most one run, and the Steps of no
\* run whose locals it leaves alone.
RunsSequential ==
    \A k \in 1..Len(calls) :
        /\ (calls[k].pc = "exec" /\ calls[k].numExecutions >= 1) =>
               Len(SuccessSteps(calls[k].runId)) >= 1
        /\ InsertAccepted(Runs, calls[k].runId)
               = InsertAccepted(StepsOf(calls[k].runId), calls[k].runId)
StoreIsolatesRuns ==
    /\ \A j, k \in 1..Len(calls) :
          (calls'[j] # calls[j] /\ calls'[k] # calls[k]) => j = k
    /\ \A j \in 1..Len(calls) :
          calls'[j] = calls[j] =>
              SelectSeq(Runs', LAMBDA row : row.id = calls[j].runId)
                  = StepsOf(calls[j].runId)

====
